---- MODULE Spec2Model ----
(***************************************************************************)
(* A model of the yaml-parser repository: the Lexer of src/lexer.go and    *)
(* the recursive-descent Parser of src/parser.go.                          *)
(*                                                                         *)
(* The input buffer is a sequence of bytes, each byte written as a         *)
(* one-character string; the zero byte is written NUL.  Go's 0-based       *)
(* offsets are kept: l.input[i] is ByteAt(inp, i), l.input[a:b] is         *)
(* Slice(inp, a, b).  The recursive Go calls of the parser are unfolded    *)
(* into a stack of frames, one action per step of a function between two   *)
(* token reads.                                                            *)
(***************************************************************************)
EXTENDS Integers, Sequences, FiniteSets, TLC

VARIABLES input, pos, currToken, prevToken, currentIndentation, stack, ret

vars == <<input, pos, currToken, prevToken, currentIndentation, stack, ret>>

(***************************************************************************)
(* Bytes                                                                   *)
(***************************************************************************)
NUL == "NUL"

Digits == {"0", "1", "2", "3", "4", "5", "6", "7", "8", "9"}

\* unicode.IsSpace on a byte of the model's alphabet
IsSpace(ch) == ch \in {" ", "\n", "\t", "\r"}

\* l.input[i]; OOB stands for the index-out-of-range abort of the runtime
OOB == "OOB"

ByteAt(inp, i) == IF i >= 0 /\ i < Len(inp) THEN inp[i + 1] ELSE OOB

\* l.input[a:b]
Slice(inp, a, b) == SubSeq(inp, a + 1, b)

(***************************************************************************)
(* Tokens (src/lexer.go)                                                   *)
(***************************************************************************)
Token(type, value, p) == [Type |-> type, Value |-> value, Pos |-> p]

\* the result of a Lexer method: the token it returns and the cursor it leaves
Lexed(tok, p) == [tok |-> tok, pos |-> p]

nextChar(inp, p) ==
    IF p >= Len(inp) THEN [ch |-> NUL, pos |-> p]
    ELSE [ch |-> inp[p + 1], pos |-> p + 1]

peekChar(inp, p) == IF p >= Len(inp) THEN NUL ELSE inp[p + 1]

isStartOfInlineComment(inp, p) ==
    IF ~IsSpace(ByteAt(inp, p - 1)) THEN FALSE ELSE peekChar(inp, p) = "#"

isStartOfColon(inp, p) ==
    IF ByteAt(inp, p - 1) # ":" THEN FALSE ELSE IsSpace(peekChar(inp, p))

\* the scanning loop of readQuotedString: the cursor after the loop
RECURSIVE quotedScan(_, _, _)
quotedScan(inp, p, quoteChar) ==
    LET c == nextChar(inp, p)
    IN IF c.ch = quoteChar \/ c.ch = NUL THEN c.pos
       ELSE quotedScan(inp, c.pos, quoteChar)

readQuotedString(inp, p) ==
    LET start == p - 1
        quoteChar == ByteAt(inp, start)
        q == quotedScan(inp, p, quoteChar)
    IN IF ByteAt(inp, q - 1) # quoteChar
       THEN Lexed(Token("INVALID", <<"unterminated string">>, start), q)
       ELSE Lexed(Token("STRING", Slice(inp, start, q), start), q)

\* the scanning loop of readUnquotedString: the cursor after the loop
RECURSIVE unquotedScan(_, _)
unquotedScan(inp, p) ==
    LET c == nextChar(inp, p)
    IN IF c.ch = NUL \/ isStartOfInlineComment(inp, c.pos) THEN c.pos
       ELSE IF isStartOfColon(inp, c.pos) \/ c.ch = "\n" THEN c.pos - 1
       ELSE unquotedScan(inp, c.pos)

\* the trailing loop of readUnquotedString: for ; end >= 0 && !IsSpace; end--
RECURSIVE trimLoop(_, _)
trimLoop(inp, end) ==
    IF end >= 0 /\ ~IsSpace(ByteAt(inp, end)) THEN trimLoop(inp, end - 1) ELSE end

readUnquotedString(inp, p) ==
    LET start == p - 1
        q == unquotedScan(inp, p)
        end == q - 1
    IN IF ~IsSpace(ByteAt(inp, end))
       THEN Lexed(Token("STRING", Slice(inp, start, end + 1), start), q)
       ELSE Lexed(Token("STRING", Slice(inp, start, trimLoop(inp, end) + 1), start), q)

(***************************************************************************)
(* strconv.ParseFloat and strconv.Atoi on the texts the model's alphabet   *)
(* can spell: decimal digits, '.', an exponent and signs.                  *)
(***************************************************************************)
RECURSIVE digitRun(_, _)
\* the index (1-based) after the run of digits that starts at index i
digitRun(s, i) == IF i <= Len(s) /\ s[i] \in Digits THEN digitRun(s, i + 1) ELSE i

ParseFloatOK(s) ==
    LET i0 == IF Len(s) >= 1 /\ s[1] \in {"+", "-"} THEN 2 ELSE 1
        i1 == digitRun(s, i0)
        hasDot == i1 <= Len(s) /\ s[i1] = "."
        i2 == IF hasDot THEN digitRun(s, i1 + 1) ELSE i1
        mantDigits == (i1 - i0) + (IF hasDot THEN i2 - (i1 + 1) ELSE 0)
        hasExp == i2 <= Len(s) /\ s[i2] \in {"e", "E"}
        i3 == IF hasExp /\ i2 + 1 <= Len(s) /\ s[i2 + 1] \in {"+", "-"}
              THEN i2 + 2 ELSE i2 + 1
        i4 == IF hasExp THEN digitRun(s, i3) ELSE i2
    IN /\ mantDigits >= 1
       /\ hasExp => i4 > i3
       /\ i4 = Len(s) + 1

DigitVal(ch) == CHOOSE n \in 0..9 : <<"0", "1", "2", "3", "4", "5", "6", "7", "8", "9">>[n + 1] = ch

RECURSIVE decimalValue(_)
decimalValue(s) ==
    IF s = <<>> THEN 0
    ELSE 10 * decimalValue(SubSeq(s, 1, Len(s) - 1)) + DigitVal(s[Len(s)])

AtoiOK(s) ==
    LET i0 == IF Len(s) >= 1 /\ s[1] \in {"+", "-"} THEN 2 ELSE 1
    IN i0 <= Len(s) /\ digitRun(s, i0) = Len(s) + 1

Atoi(s) ==
    IF s[1] = "-" THEN 0 - decimalValue(Tail(s))
    ELSE IF s[1] = "+" THEN decimalValue(Tail(s))
    ELSE decimalValue(s)

\* the loop shared by readNumber and readBoolean: the cursor after the loop
RECURSIVE lineScan(_, _)
lineScan(inp, p) ==
    LET ch == peekChar(inp, p)
    IN IF ch = NUL \/ ch = "\n" \/ isStartOfInlineComment(inp, p) THEN p
       ELSE lineScan(inp, nextChar(inp, p).pos)

\* numType of readNumber: FLOAT_NUMBER once a peeked byte is '.'.  The bytes
\* peeked are those at start+1 .. q (the byte at the final cursor included).
numTypeOf(inp, start, q) ==
    IF \E i \in (start + 1)..q : i < Len(inp) /\ ByteAt(inp, i) = "."
    THEN "FLOAT_NUMBER" ELSE "INT_NUMBER"

readNumber(inp, p) ==
    LET start == p - 1
        q == lineScan(inp, p)
        numStr == Slice(inp, start, q)
    IN IF ~ParseFloatOK(numStr) THEN readUnquotedString(inp, start + 1)
       ELSE Lexed(Token(numTypeOf(inp, start, q), numStr, start), q)

readBoolean(inp, p) ==
    LET start == p - 1
        q == lineScan(inp, p)
        boolByte == Slice(inp, start, q)
    IN IF boolByte # <<"t", "r", "u", "e">> /\ boolByte # <<"f", "a", "l", "s", "e">>
       THEN readUnquotedString(inp, start + 1)
       ELSE Lexed(Token("BOOLEAN", boolByte, start), q)

\* the loop of readNull: the cursor after the loop
RECURSIVE nullScan(_, _)
nullScan(inp, p) ==
    LET ch == peekChar(inp, p)
    IN IF ch = NUL \/ ch = "\n" \/ isStartOfInlineComment(inp, p) \/ isStartOfColon(inp, p)
       THEN p
       ELSE nullScan(inp, nextChar(inp, p).pos)

readNull(inp, p) ==
    LET start == p - 1
        q == nullScan(inp, p)
        found == Slice(inp, start, q)
    IN IF found # <<"n", "u", "l", "l">> THEN readUnquotedString(inp, start + 1)
       ELSE Lexed(Token("NULL", found, start), q)

\* the loop of readComment: the cursor after the loop
RECURSIVE commentScan(_, _)
commentScan(inp, p) ==
    LET ch == peekChar(inp, p)
    IN IF ch = NUL \/ ch = "\n" THEN p ELSE commentScan(inp, nextChar(inp, p).pos)

readComment(inp, p) ==
    Lexed(Token("COMMENT", <<>>, p - 1), commentScan(inp, p))

\* Lexer.NextToken from cursor p
LexerNextToken(inp, p) ==
    LET c == nextChar(inp, p)
        ch == c.ch
        q == c.pos
    IN CASE ch \in {"'", "\""} -> readQuotedString(inp, q)
         [] ch = ":" -> Lexed(Token("COLON", <<>>, q - 1), q)
         [] ch = "[" -> Lexed(Token("LEFT_SQUARE_BRACKET", <<>>, q - 1), q)
         [] ch = "]" -> Lexed(Token("RIGHT_SQUARE_BRACKET", <<>>, q - 1), q)
         [] ch = "-" -> Lexed(Token("HYPHEN", <<>>, q - 1), q)
         [] ch = "#" -> readComment(inp, q)
         [] ch \in {"t", "f"} -> readBoolean(inp, q)
         [] ch = "n" -> readNull(inp, q)
         [] ch \in Digits \cup {"."} -> readNumber(inp, q)
         [] ch = "\n" -> Lexed(Token("NEWLINE", <<>>, q - 1), q)
         [] ch = "\t" ->
              Lexed(Token("INVALID", <<"tabs are not valid within yaml files">>, q - 1), q)
         [] ch = NUL -> Lexed(Token("EOF", <<>>, q - 1), q)
         [] OTHER -> IF IsSpace(ch) THEN Lexed(Token("SPACE", <<>>, q), q)
                     ELSE readUnquotedString(inp, q)

(***************************************************************************)
(* Values and documents (src/parser.go, lines 13-97)                       *)
(***************************************************************************)
\* the Go nil yamlVal
NilVal == [kind |-> "Null"]

yamlString(s) == [kind |-> "String", str |-> s]

yamlInt(n) == [kind |-> "Int", int |-> n]

\* a float64 is kept as the text it was converted from
yamlFloat(s) == [kind |-> "Float", text |-> s]

yamlBool(b) == [kind |-> "Bool", bool |-> b]

yamlArray(list) == [kind |-> "List", items |-> list]

\* a YAMLObj: the pairs and the seen-key set
YAMLObj(pairs, keys) == [kind |-> "Map", pairs |-> pairs, keys |-> keys]

EmptyObj == YAMLObj(<<>>, {})

KeyValue(key, val) == [Key |-> key, Value |-> val]

\* errors: Message is a sequence, empty for the nil error
NilErr == [Message |-> <<>>, Pos |-> 0]

newParseError(msg, p) == [Message |-> msg, Pos |-> p]

ErrEmpty == <<"empty files are not valid yaml">>

ErrDuplicateKey(key) == <<"duplicate key", key>>

\* a variant of YAMLObj.append that does not record the key in the seen-key
\* set; C10 has to tell it from the code
YAMLObj_append_KeyNotRecorded(o, pair) ==
    IF pair.Key \in o.keys
    THEN [obj |-> o, err |-> ErrDuplicateKey(pair.Key)]
    ELSE [obj |-> YAMLObj(Append(o.pairs, pair), o.keys), err |-> <<>>]

\* YAMLObj.append: the object afterwards and the error returned
YAMLObj_append(o, pair) ==
    IF pair.Key \in o.keys
    THEN [obj |-> o, err |-> ErrDuplicateKey(pair.Key)]
    ELSE [obj |-> YAMLObj(Append(o.pairs, pair), o.keys \cup {pair.Key}), err |-> <<>>]

(***************************************************************************)
(* The parser's call stack.  A frame is one activation of a Go function;   *)
(* ret is what the last finished call returned to its caller.              *)
(***************************************************************************)
ParseFrame(pc, obj, key) == [fn |-> "Parse", pc |-> pc, obj |-> obj, key |-> key]

ParseValueFrame == [fn |-> "parseValue"]

HandleSpaceFrame(n) == [fn |-> "handleSpace", spaceCount |-> n]

ParseIndentedValueFrame == [fn |-> "parseIndentedValue"]

ParseListFrame(pc, list) == [fn |-> "parseList", pc |-> pc, list |-> list]

Running == stack # <<>>

Done == stack = <<>>

Top == stack[Len(stack)]

Callers == SubSeq(stack, 1, Len(stack) - 1)

\* the running function returns (val, err) to its caller
Return(val, err) ==
    /\ stack' = Callers
    /\ ret' = [val |-> val, err |-> err]

\* the running function moves on in its own frame
Goto(frame) == stack' = Callers \o <<frame>>

\* the running function, now at frame, calls callee
Call(frame, callee) == stack' = Callers \o <<frame, callee>>

getPos == currToken.Pos

\* a variant of Parser.NextToken that never asks the Lexer for a token; C19
\* has to tell it from the code
ParserNextToken_NoRead == UNCHANGED <<currToken, pos>>

\* Parser.NextToken: prevToken is nil or points at the currToken field itself
ParserNextToken ==
    IF prevToken # "nil"
    THEN UNCHANGED <<currToken, pos>>
    ELSE LET r == LexerNextToken(input, pos)
         IN currToken' = r.tok /\ pos' = r.pos

(***************************************************************************)
(* Parser.Parse (src/parser.go, lines 153-204)                             *)
(***************************************************************************)
\* a variant of ParseEntry without the empty-input check; C6 has to tell it
\* from the code
ParseEntry_NoEmptyCheck ==
    /\ Running /\ Top.fn = "Parse" /\ Top.pc = "entry"
    /\ Goto(ParseFrame("key", Top.obj, Top.key))
    /\ UNCHANGED <<input, pos, currToken, prevToken, currentIndentation, ret>>

\* lines 154-158: the empty-input check
ParseEntry ==
    /\ Running /\ Top.fn = "Parse" /\ Top.pc = "entry"
    /\ IF currToken.Type = "EOF"
       THEN Return(Top.obj, newParseError(ErrEmpty, getPos))
       ELSE Goto(ParseFrame("key", Top.obj, Top.key)) /\ UNCHANGED ret
    /\ UNCHANGED <<input, pos, currToken, prevToken, currentIndentation>>

\* lines 164-171: the loop condition and the key
ParseKey ==
    /\ Running /\ Top.fn = "Parse" /\ Top.pc = "key"
    /\ IF currToken.Type = "EOF"
       THEN Return(Top.obj, NilErr) /\ UNCHANGED <<currToken, pos>>
       ELSE IF currToken.Type # "STRING"
       THEN /\ Return(Top.obj, newParseError(<<"Expected string for key">>, getPos))
            /\ UNCHANGED <<currToken, pos>>
       ELSE /\ Goto(ParseFrame("colon", Top.obj, currToken.Value))
            /\ ParserNextToken
            /\ UNCHANGED ret
    /\ UNCHANGED <<input, prevToken, currentIndentation>>

\* lines 173-176
ParseColon ==
    /\ Running /\ Top.fn = "Parse" /\ Top.pc = "colon"
    /\ IF currToken.Type # "COLON"
       THEN /\ Return(Top.obj, newParseError(<<"expected ':' after key declaration">>, getPos))
            /\ UNCHANGED <<currToken, pos>>
       ELSE /\ Goto(ParseFrame("separator", Top.obj, Top.key))
            /\ ParserNextToken
            /\ UNCHANGED ret
    /\ UNCHANGED <<input, prevToken, currentIndentation>>

\* lines 181-187: the separator, then the call of parseValue
ParseSeparator ==
    /\ Running /\ Top.fn = "Parse" /\ Top.pc = "separator"
    /\ IF currToken.Type # "SPACE" /\ currToken.Type # "NEWLINE"
       THEN /\ Return(Top.obj, newParseError(<<"Expected ' ' after seperator">>, getPos))
            /\ UNCHANGED <<currToken, pos>>
       ELSE /\ Call(ParseFrame("append", Top.obj, Top.key), ParseValueFrame)
            /\ ParserNextToken
            /\ UNCHANGED ret
    /\ UNCHANGED <<input, prevToken, currentIndentation>>

\* lines 187-196: parseValue has returned; append the pair
ParseAppend ==
    /\ Running /\ Top.fn = "Parse" /\ Top.pc = "append"
    /\ LET a == YAMLObj_append(Top.obj, KeyValue(Top.key, ret.val))
       IN IF ret.err # NilErr
          THEN Return(Top.obj, ret.err) /\ UNCHANGED <<currToken, pos>>
          ELSE IF a.err # <<>>
          THEN Return(a.obj, newParseError(a.err, getPos)) /\ UNCHANGED <<currToken, pos>>
          ELSE /\ Goto(ParseFrame("newline", a.obj, Top.key))
               /\ ParserNextToken
               /\ UNCHANGED ret
    /\ UNCHANGED <<input, prevToken, currentIndentation>>

\* lines 197-200
ParseNewline ==
    /\ Running /\ Top.fn = "Parse" /\ Top.pc = "newline"
    /\ IF currToken.Type # "NEWLINE" /\ currToken.Type # "EOF"
       THEN /\ Return(Top.obj, newParseError(<<"Expected new line after parsing values">>, getPos))
            /\ UNCHANGED <<currToken, pos>>
       ELSE /\ Goto(ParseFrame("key", Top.obj, Top.key))
            /\ ParserNextToken
            /\ UNCHANGED ret
    /\ UNCHANGED <<input, prevToken, currentIndentation>>

(***************************************************************************)
(* Parser.parseValue (lines 215-253)                                       *)
(***************************************************************************)
\* what parseValue returns for a token it converts itself
scalarOf(tok) ==
    CASE tok.Type = "STRING" -> [val |-> yamlString(tok.Value), err |-> NilErr]
      [] tok.Type = "INT_NUMBER" ->
           IF AtoiOK(tok.Value)
           THEN [val |-> yamlInt(Atoi(tok.Value)), err |-> NilErr]
           ELSE [val |-> NilVal, err |-> newParseError(<<"expected a number">>, tok.Pos)]
      [] tok.Type = "FLOAT_NUMBER" ->
           IF ParseFloatOK(tok.Value)
           THEN [val |-> yamlFloat(tok.Value), err |-> NilErr]
           ELSE [val |-> NilVal, err |-> newParseError(<<"Expected a number">>, tok.Pos)]
      [] tok.Type = "BOOLEAN" ->
           [val |-> yamlBool(tok.Value = <<"t", "r", "u", "e">>), err |-> NilErr]
      [] tok.Type = "NULL" ->
           IF tok.Value # <<"n", "u", "l", "l">>
           THEN [val |-> NilVal, err |-> newParseError(<<"Expected a null value">>, tok.Pos)]
           ELSE [val |-> NilVal, err |-> NilErr]
      [] tok.Type = "NEWLINE" -> [val |-> NilVal, err |-> NilErr]
      [] OTHER -> [val |-> NilVal, err |-> newParseError(<<"Expected value">>, tok.Pos)]

parseValue ==
    /\ Running /\ Top.fn = "parseValue"
    /\ IF currToken.Type = "SPACE"
       THEN Goto(HandleSpaceFrame(0)) /\ UNCHANGED ret
       ELSE Return(scalarOf(currToken).val, scalarOf(currToken).err)
    /\ UNCHANGED <<input, pos, currToken, prevToken, currentIndentation>>

(***************************************************************************)
(* Parser.handleSpace (lines 256-277)                                      *)
(***************************************************************************)
\* lines 258-261: one turn of the counting loop
handleSpaceCount ==
    /\ Running /\ Top.fn = "handleSpace"
    /\ currToken.Type = "SPACE"
    /\ Goto(HandleSpaceFrame(Top.spaceCount + 1))
    /\ ParserNextToken
    /\ UNCHANGED <<input, prevToken, currentIndentation, ret>>

\* lines 266-276: the comparison with currentIndentation
handleSpace ==
    /\ Running /\ Top.fn = "handleSpace"
    /\ currToken.Type # "SPACE"
    /\ IF Top.spaceCount > currentIndentation
       THEN Goto(ParseIndentedValueFrame) /\ UNCHANGED <<currentIndentation, ret>>
       ELSE IF Top.spaceCount < currentIndentation
       THEN currentIndentation' = Top.spaceCount /\ Return(NilVal, NilErr)
       ELSE Goto(ParseValueFrame) /\ UNCHANGED <<currentIndentation, ret>>
    /\ UNCHANGED <<input, pos, currToken, prevToken>>

(***************************************************************************)
(* Parser.parseIndentedValue (lines 280-292)                               *)
(***************************************************************************)
parseIndentedValue ==
    /\ Running /\ Top.fn = "parseIndentedValue"
    /\ currentIndentation' = currentIndentation + 1
    /\ IF currToken.Type = "HYPHEN"
       THEN Goto(ParseListFrame("loop", <<>>)) /\ UNCHANGED ret
       ELSE IF currToken.Type \in {"STRING", "COLON"}
       THEN Goto(ParseFrame("entry", EmptyObj, <<>>)) /\ UNCHANGED ret
       ELSE Return(NilVal, newParseError(<<"expected list or map after indentation">>, getPos))
    /\ UNCHANGED <<input, pos, currToken, prevToken>>

(***************************************************************************)
(* Parser.parseList (lines 295-309)                                        *)
(***************************************************************************)
\* lines 297-300: the loop condition, the dash, the call of parseValue
parseListLoop ==
    /\ Running /\ Top.fn = "parseList" /\ Top.pc = "loop"
    /\ IF currToken.Type = "HYPHEN"
       THEN /\ Call(ParseListFrame("append", Top.list), ParseValueFrame)
            /\ ParserNextToken
            /\ UNCHANGED ret
       ELSE Return(yamlArray(Top.list), NilErr) /\ UNCHANGED <<currToken, pos>>
    /\ UNCHANGED <<input, prevToken, currentIndentation>>

\* lines 300-306: parseValue has returned; append the item
parseListAppend ==
    /\ Running /\ Top.fn = "parseList" /\ Top.pc = "append"
    /\ IF ret.err # NilErr
       THEN Return(NilVal, ret.err) /\ UNCHANGED <<currToken, pos>>
       ELSE /\ Goto(ParseListFrame("loop", Append(Top.list, ret.val)))
            /\ ParserNextToken
            /\ UNCHANGED ret
    /\ UNCHANGED <<input, prevToken, currentIndentation>>

(***************************************************************************)
(* The inputs of the model: block documents of up to MaxLines lines, each  *)
(* line an indentation and a body, and one-line documents "key: text"      *)
(* with and without the final line break.                                  *)
(***************************************************************************)
MaxLines == 3

NL == <<"\n">>

\* a line body "key: text", a body "key:" that opens a block, a list item
Entry(key, text) == key \o <<":", " ">> \o text

Opener(key) == key \o <<":">>

Item(text) == IF text = <<>> THEN <<"-">> ELSE <<"-", " ">> \o text

Indents == {<<>>, <<" ">>, <<" ", " ">>}

Bodies ==
    { Entry(<<"a">>, <<"1">>),
      Entry(<<"b">>, <<"2">>),
      Opener(<<"a">>),
      Item(<<"1">>),
      Item(<<>>) }

\* a line that is a tab alone
TabLine == <<"\t">> \o NL

Lines == {ind \o body \o NL : ind \in Indents, body \in Bodies} \cup {TabLine}

RECURSIVE Docs(_)
\* the concatenations of exactly n lines
Docs(n) == IF n = 0 THEN {<<>>} ELSE {d \o l : d \in Docs(n - 1), l \in Lines}

BlockDocs == UNION {Docs(n) : n \in 0..MaxLines}

Keys == {<<"a">>, <<"n">>, <<"t">>}

PlainTexts ==
    { <<"1">>, <<"2", "0">>, <<"0", "7">>,
      <<"t", "r", "u", "e">>, <<"f", "a", "l", "s", "e">>, <<"n", "u", "l", "l">>,
      <<"x">>, <<"n", "o">>, <<"t", "o">>, <<"x", " ", "y">>,
      <<"1", ".", "5">>, <<"1", "e", "5">> }

TerminatedTexts == {<<"\"", "x", "\"">>, <<"'", "x", "y", "'">>, <<"\"", "\"">>}

UnterminatedTexts == {<<"\"", "x">>, <<"'", "x">>, <<"\"">>, <<"\"", "x", "'">>}

QuotedTexts == TerminatedTexts \cup UnterminatedTexts

ScalarDoc(key, text, end) == Entry(key, text) \o end

ScalarDocs ==
    {ScalarDoc(k, t, e) : k \in Keys, t \in PlainTexts \cup QuotedTexts, e \in {NL, <<>>}}

PairTexts == {<<"1">>, <<"x">>, <<"t", "r", "u", "e">>, <<"\"", "x", "\"">>}

TwoEntryDocs ==
    {ScalarDoc(k1, t1, NL) \o ScalarDoc(k2, t2, NL) :
        k1 \in Keys, k2 \in Keys, t1 \in PairTexts, t2 \in PairTexts}

\* an entry indented by a tab, alone and after one line
TabDocs == {l \o <<"\t">> \o Entry(<<"a">>, <<"1">>) \o NL : l \in Lines \cup {<<>>}}

\* buffers that hold a zero byte
NulDocs == {<<NUL>>, <<NUL, "a">>, Entry(<<"a">>, <<NUL>>), Entry(<<"a">>, <<"1">>) \o <<NUL>> \o NL}

\* the comment "#c", on a line of its own before or after an entry and after
\* the value of an entry
Comment == <<"#", "c">>

CommentTexts == {<<"1">>, <<"x">>, <<"\"", "x", "\"">>}

LeadingComment(doc) == Comment \o NL \o doc

TrailingComment(doc) == doc \o Comment \o NL

InlineComment(key, text) == Entry(key, text) \o <<" ">> \o Comment \o NL

Commented(key, text) ==
    { LeadingComment(ScalarDoc(key, text, NL)),
      TrailingComment(ScalarDoc(key, text, NL)),
      InlineComment(key, text) }

CommentDocs == UNION {Commented(<<"a">>, t) : t \in CommentTexts}

Inputs == BlockDocs \cup ScalarDocs \cup TwoEntryDocs \cup TabDocs \cup NulDocs \cup CommentDocs

(***************************************************************************)
(* NewParser (lines 128-131), then the call of Parse by main               *)
(***************************************************************************)
NewParser(inp) ==
    LET r == LexerNextToken(inp, 0)
    IN /\ input = inp
       /\ pos = r.pos
       /\ currToken = r.tok
       /\ prevToken = "nil"
       /\ currentIndentation = 0

Init ==
    /\ \E inp \in Inputs : NewParser(inp)
    /\ stack = <<ParseFrame("entry", EmptyObj, <<>>)>>
    /\ ret = [val |-> NilVal, err |-> NilErr]

Next ==
    \/ ParseEntry
    \/ ParseKey
    \/ ParseColon
    \/ ParseSeparator
    \/ ParseAppend
    \/ ParseNewline
    \/ parseValue
    \/ handleSpaceCount
    \/ handleSpace
    \/ parseIndentedValue
    \/ parseListLoop
    \/ parseListAppend

Spec == Init /\ [][Next]_vars

\* main calls Parse and nothing else runs: a parse that can take a step takes it
SpecFair == Spec /\ WF_vars(Next)

(***************************************************************************)
(* The index and slice expressions of the Lexer.  Go aborts the program    *)
(* when an index is outside 0..len-1 or a slice outside 0 <= a <= b <= len;*)
(* ...Aborts(inp, p) tells whether the method, called with the cursor at   *)
(* p, evaluates such an expression.                                        *)
(***************************************************************************)
IndexOK(inp, i) == i >= 0 /\ i < Len(inp)

SliceOK(inp, a, b) == 0 <= a /\ a <= b /\ b <= Len(inp)

\* a variant of isStartOfInlineComment that reads l.input[l.pos], the byte
\* ahead, without the length check of peekChar; C12 has to tell it from the code
isStartOfInlineCommentAborts_IndexAtCursor(inp, p) == ~IndexOK(inp, p)

\* l.input[l.pos-1] of isStartOfInlineComment (line 277) and isStartOfColon (line 287)
isStartOfInlineCommentAborts(inp, p) == ~IndexOK(inp, p - 1)

isStartOfColonAborts(inp, p) == ~IndexOK(inp, p - 1)

\* lines 136, 146 and 149
readQuotedStringAborts(inp, p) ==
    LET start == p - 1
        q == quotedScan(inp, p, ByteAt(inp, start))
    IN \/ ~IndexOK(inp, start)
       \/ ~IndexOK(inp, q - 1)
       \/ (ByteAt(inp, q - 1) = ByteAt(inp, start) /\ ~SliceOK(inp, start, q))

\* the predicates evaluated in the loop of readUnquotedString (lines 158, 161)
RECURSIVE unquotedScanAborts(_, _)
unquotedScanAborts(inp, p) ==
    LET c == nextChar(inp, p)
    IN IF c.ch = NUL THEN FALSE
       ELSE IF isStartOfInlineCommentAborts(inp, c.pos) THEN TRUE
       ELSE IF isStartOfInlineComment(inp, c.pos) THEN FALSE
       ELSE IF isStartOfColonAborts(inp, c.pos) THEN TRUE
       ELSE IF isStartOfColon(inp, c.pos) \/ c.ch = "\n" THEN FALSE
       ELSE unquotedScanAborts(inp, c.pos)

\* l.input[end] in the trailing loop (line 171), guarded by end >= 0 alone
RECURSIVE trimLoopAborts(_, _)
trimLoopAborts(inp, end) ==
    IF end < 0 THEN FALSE
    ELSE IF ~IndexOK(inp, end) THEN TRUE
    ELSE IF ~IsSpace(ByteAt(inp, end)) THEN trimLoopAborts(inp, end - 1)
    ELSE FALSE

\* lines 158-173
readUnquotedStringAborts(inp, p) ==
    LET start == p - 1
        q == unquotedScan(inp, p)
        end == q - 1
    IN \/ unquotedScanAborts(inp, p)
       \/ ~IndexOK(inp, end)
       \/ IF ~IsSpace(ByteAt(inp, end)) THEN ~SliceOK(inp, start, end + 1)
          ELSE \/ trimLoopAborts(inp, end)
               \/ ~SliceOK(inp, start, trimLoop(inp, end) + 1)

\* isStartOfInlineComment in the loop of readNumber and readBoolean (lines 193, 218)
RECURSIVE lineScanAborts(_, _)
lineScanAborts(inp, p) ==
    LET ch == peekChar(inp, p)
    IN IF ch = NUL \/ ch = "\n" THEN FALSE
       ELSE IF isStartOfInlineCommentAborts(inp, p) THEN TRUE
       ELSE IF isStartOfInlineComment(inp, p) THEN FALSE
       ELSE lineScanAborts(inp, nextChar(inp, p).pos)

\* lines 193, 199 and the re-lexing of line 206
readNumberAborts(inp, p) ==
    LET start == p - 1
        q == lineScan(inp, p)
    IN \/ lineScanAborts(inp, p)
       \/ ~SliceOK(inp, start, q)
       \/ (~ParseFloatOK(Slice(inp, start, q)) /\ readUnquotedStringAborts(inp, start + 1))

\* lines 218, 223 and the re-lexing of line 227
readBooleanAborts(inp, p) ==
    LET start == p - 1
        q == lineScan(inp, p)
        boolByte == Slice(inp, start, q)
    IN \/ lineScanAborts(inp, p)
       \/ ~SliceOK(inp, start, q)
       \/ /\ boolByte # <<"t", "r", "u", "e">> /\ boolByte # <<"f", "a", "l", "s", "e">>
          /\ readUnquotedStringAborts(inp, start + 1)

\* the predicates evaluated in the loop of readNull (line 239)
RECURSIVE nullScanAborts(_, _)
nullScanAborts(inp, p) ==
    LET ch == peekChar(inp, p)
    IN IF ch = NUL \/ ch = "\n" THEN FALSE
       ELSE IF isStartOfInlineCommentAborts(inp, p) THEN TRUE
       ELSE IF isStartOfInlineComment(inp, p) THEN FALSE
       ELSE IF isStartOfColonAborts(inp, p) THEN TRUE
       ELSE IF isStartOfColon(inp, p) THEN FALSE
       ELSE nullScanAborts(inp, nextChar(inp, p).pos)

\* lines 239, 244 and the re-lexing of line 247
readNullAborts(inp, p) ==
    LET start == p - 1
        q == nullScan(inp, p)
    IN \/ nullScanAborts(inp, p)
       \/ ~SliceOK(inp, start, q)
       \/ (Slice(inp, start, q) # <<"n", "u", "l", "l">> /\ readUnquotedStringAborts(inp, start + 1))

\* Lexer.NextToken from cursor p evaluates an index or slice out of bounds
LexerNextTokenAborts(inp, p) ==
    LET c == nextChar(inp, p)
        ch == c.ch
        q == c.pos
    IN CASE ch \in {"'", "\""} -> readQuotedStringAborts(inp, q)
         [] ch \in {"t", "f"} -> readBooleanAborts(inp, q)
         [] ch = "n" -> readNullAborts(inp, q)
         [] ch \in Digits \cup {"."} -> readNumberAborts(inp, q)
         [] ch \in {":", "[", "]", "-", "#", "\n", "\t", NUL} -> FALSE
         [] OTHER -> IF IsSpace(ch) THEN FALSE ELSE readUnquotedStringAborts(inp, q)

(***************************************************************************)
(* The Lexer on its own: a Lexer{input: input} and repeated NextToken      *)
(* calls, on every byte string of up to MaxLen bytes of LexBytes.          *)
(***************************************************************************)
MaxLen == 3

LexBytes == {"a", "t", "n", "1", " ", ":", "#", "\n", "\"", NUL}

RECURSIVE ByteStrings(_)
\* the byte strings of exactly n bytes
ByteStrings(n) == IF n = 0 THEN {<<>>} ELSE {b \o <<x>> : b \in ByteStrings(n - 1), x \in LexBytes}

LexInputs == UNION {ByteStrings(n) : n \in 0..MaxLen}

\* the token of a call that aborted
AbortToken == Token("ABORT", <<>>, 0)

\* the zero value of Token: what a token variable holds before the first call
ZeroToken == Token("INVALID", <<>>, 0)

InitLex ==
    /\ input \in LexInputs
    /\ pos = 0
    /\ currToken = ZeroToken
    /\ prevToken = "nil"
    /\ currentIndentation = 0
    /\ stack = <<>>
    /\ ret = [val |-> NilVal, err |-> NilErr]

\* one call of Lexer.NextToken
LexerCall ==
    /\ currToken # AbortToken
    /\ IF LexerNextTokenAborts(input, pos)
       THEN currToken' = AbortToken /\ pos' = pos
       ELSE LET r == LexerNextToken(input, pos)
            IN currToken' = r.tok /\ pos' = r.pos
    /\ UNCHANGED <<input, prevToken, currentIndentation, stack, ret>>

NextLex == LexerCall

SpecLex == InitLex /\ [][NextLex]_vars

(***************************************************************************)
(* The Parser's token methods on their own: a NewParser(input) whose       *)
(* NextToken and peekToken a caller invokes in any order.  prevToken is    *)
(* nil or the address of the currToken field; ret holds what the last call *)
(* returned.                                                               *)
(***************************************************************************)
\* &p.currToken (line 144)
AddrCurrToken == "&currToken"

\* NextToken returns nothing
NoReturn == [val |-> NilVal, err |-> NilErr]

InitPeek ==
    /\ \E inp \in LexInputs : NewParser(inp)
    /\ stack = <<>>
    /\ ret = NoReturn

\* a call of Parser.NextToken (lines 135-141)
CallNextToken ==
    /\ Done
    /\ ParserNextToken
    /\ ret' = NoReturn
    /\ UNCHANGED <<input, prevToken, currentIndentation, stack>>

\* a call of Parser.peekToken (lines 143-146): the slot is pointed at the
\* currToken field and the Lexer's next token is returned
peekToken ==
    /\ Done
    /\ prevToken' = AddrCurrToken
    /\ LET r == LexerNextToken(input, pos)
       IN pos' = r.pos /\ ret' = [val |-> r.tok, err |-> NilErr]
    /\ UNCHANGED <<input, currToken, currentIndentation, stack>>

NextPeek == CallNextToken \/ peekToken

SpecPeek == InitPeek /\ [][NextPeek]_vars

(***************************************************************************)
(* What a parse ended with                                                 *)
(***************************************************************************)
Failed == Done /\ ret.err # NilErr

Succeeded == Done /\ ret.err = NilErr

\* the document with these pairs
Doc(pairs) == YAMLObj(pairs, {pairs[i].Key : i \in 1..Len(pairs)})

IsDuplicateKeyError(err) == Len(err.Message) = 2 /\ err.Message[1] = "duplicate key"

\* the value the specification gives an unquoted literal (spec 3 and 8): a run
\* of digits is an Int, true and false are Bools, null is the null value,
\* digits with a decimal point are a Float, any other text is a String
ExpectedScalar(text) ==
    IF text # <<>> /\ digitRun(text, 1) = Len(text) + 1 THEN yamlInt(decimalValue(text))
    ELSE IF text = <<"t", "r", "u", "e">> THEN yamlBool(TRUE)
    ELSE IF text = <<"f", "a", "l", "s", "e">> THEN yamlBool(FALSE)
    ELSE IF text = <<"n", "u", "l", "l">> THEN NilVal
    ELSE IF \E i \in 1..Len(text) : text[i] = "." /\ digitRun(text, 1) = i
                                      /\ digitRun(text, i + 1) = Len(text) + 1 /\ Len(text) > 1
    THEN yamlFloat(text)
    ELSE yamlString(text)

\* C1: a key opens a nested block map by an indentation increase and a later
\* line returns to the parent's indentation: Parse closes the nested map at the
\* dedent and appends the following entry to the parent map, so
\* "p:\n c: v\ns: w\n" yields {p: {c: v}, s: w}.
C1_DedentResumesParent ==
    \A ind \in Indents \ {<<>>}, c \in {<<"a">>, <<"b">>}, s \in {<<"b">>} :
        LET cv == IF c = <<"a">> THEN <<"1">> ELSE <<"2">>
            doc == Opener(<<"a">>) \o NL \o ind \o Entry(c, cv) \o NL
                   \o Entry(s, <<"2">>) \o NL
        IN (input = doc /\ Done) =>
              ret = [ val |-> Doc(<< KeyValue(<<"a">>, Doc(<<KeyValue(c, ExpectedScalar(cv))>>)),
                                     KeyValue(s, ExpectedScalar(<<"2">>)) >>),
                      err |-> NilErr ]

\* the lines of a block list: one item per line, each indented by ind
RECURSIVE ItemLines(_, _)
ItemLines(ind, texts) ==
    IF texts = <<>> THEN <<>>
    ELSE ind \o Item(Head(texts)) \o NL \o ItemLines(ind, Tail(texts))

ItemValue(text) == IF text = <<>> THEN NilVal ELSE ExpectedScalar(text)

\* C2: for every block list of n >= 1 hyphen-introduced item lines under a key,
\* Parse succeeds and the key's value is the list of exactly the n item values
\* in source order.
C2_BlockListAllItems ==
    \A ind \in Indents \ {<<>>}, n \in 1..(MaxLines - 1) :
        \A texts \in [1..n -> {<<"1">>, <<>>}] :
            (input = Opener(<<"a">>) \o NL \o ItemLines(ind, texts) /\ Done) =>
                ret = [ val |-> Doc(<<KeyValue(<<"a">>,
                                     yamlArray([i \in 1..n |-> ItemValue(texts[i])]))>>),
                        err |-> NilErr ]

\* C3: two entries of the same map level with the same key make Parse fail with
\* a duplicate-key error, whatever the value types and whatever lies between
\* them (a nested block under the first one included), and keys of different
\* map levels never collide.
C3_DuplicateKeysPerLevel ==
    /\ \A k \in Keys, t1 \in PairTexts, t2 \in PairTexts :
          (input = ScalarDoc(k, t1, NL) \o ScalarDoc(k, t2, NL) /\ Done) =>
              ret.err.Message = ErrDuplicateKey(k)
    /\ \A ind \in Indents \ {<<>>}, child \in {Entry(<<"a">>, <<"1">>), Entry(<<"b">>, <<"2">>)} :
          (input = Opener(<<"a">>) \o NL \o ind \o child \o NL
                   \o Entry(<<"a">>, <<"1">>) \o NL /\ Done) =>
              ret.err.Message = ErrDuplicateKey(<<"a">>)
    /\ \A ind \in Indents \ {<<>>} :
          /\ (input = Opener(<<"a">>) \o NL \o ind \o Entry(<<"a">>, <<"1">>) \o NL /\ Done) =>
                ~IsDuplicateKeyError(ret.err)
          /\ (input = Opener(<<"a">>) \o NL \o ind \o Entry(<<"b">>, <<"2">>) \o NL
                      \o Entry(<<"b">>, <<"2">>) \o NL /\ Done) =>
                ~IsDuplicateKeyError(ret.err)

\* C4: for every single-line document "key: value\n" with an unquoted key and
\* an unquoted scalar value, Parse returns a document with exactly one pair,
\* whose key is the key text and whose value has the kind of the literal.
C4_SingleLineScalar ==
    \A k \in Keys, t \in PlainTexts :
        (input = ScalarDoc(k, t, NL) /\ Done) =>
            ret = [val |-> Doc(<<KeyValue(k, ExpectedScalar(t))>>), err |-> NilErr]

\* C5: for every quoted String token used as a value, the String value in the
\* document is the token text without the surrounding quote characters.
C5_QuotesStripped ==
    \A k \in Keys, t \in TerminatedTexts :
        (input = ScalarDoc(k, t, NL) /\ Done) =>
            /\ ret.err = NilErr
            /\ ret.val.pairs = <<KeyValue(k, yamlString(SubSeq(t, 2, Len(t) - 1)))>>

\* the first token of the input, the one NewParser reads
FirstToken == LexerNextToken(input, 0).tok

AtStart == Len(stack) = 1 /\ Top.fn = "Parse" /\ Top.pc = "entry"

\* C6: for the zero-length input the first token is EndOfInput and Parse fails
\* with the empty-input error and no pairs; for every input whose first token
\* is not EndOfInput the parse never ends with the empty-input error.
C6_EmptyInput ==
    /\ (input = <<>> /\ AtStart) => currToken.Type = "EOF"
    /\ (input = <<>> /\ Done) => (ret.err.Message = ErrEmpty /\ ret.val.pairs = <<>>)
    /\ (input # <<>> /\ FirstToken.Type # "EOF" /\ Done) => ret.err.Message # ErrEmpty

C6_Witness == input = <<>> /\ Done /\ ret.err.Message = ErrEmpty

\* a tab in the leading whitespace of some line
HasLeadingTab(inp) ==
    \E i \in 1..Len(inp) :
        /\ inp[i] = "\t"
        /\ \E j \in 1..i : /\ (j = 1 \/ inp[j - 1] = "\n")
                           /\ \A m \in j..i : inp[m] \in {" ", "\t"}

\* C7: for every input that has a tab in the leading whitespace of some line,
\* Parse fails.
C7_LeadingTabFails == (HasLeadingTab(input) /\ Done) => ret.err # NilErr

\* C8: an opening quote with no matching closing quote later in the buffer
\* makes the tokenizer return an Invalid token, never a String token, with Pos
\* the offset of the opening quote, and Parse fails with an error at that offset.
C8_UnterminatedQuote ==
    \A k \in Keys, t \in UnterminatedTexts, e \in {NL, <<>>} :
        LET quoteAt == Len(k) + 2
        IN input = ScalarDoc(k, t, e) =>
              /\ (currToken.Pos = quoteAt /\ currToken.Type # "SPACE") =>
                     currToken.Type = "INVALID"
              /\ Done => (ret.err # NilErr /\ ret.err.Pos = quoteAt)

\* C9: every error returned by Parse carries a position that is a byte offset
\* into the input, 0 <= Pos <= len(input), and is the Pos of the token that was
\* current when the error was detected.
C9_ErrorPosInInput ==
    Failed => /\ 0 <= ret.err.Pos /\ ret.err.Pos <= Len(input)
              /\ ret.err.Pos = currToken.Pos

\* the documents held in a value, nested ones included
RECURSIVE ObjsIn(_)
ObjsIn(v) ==
    CASE v.kind = "Map" -> {v} \cup UNION {ObjsIn(v.pairs[i].Value) : i \in 1..Len(v.pairs)}
      [] v.kind = "List" -> UNION {ObjsIn(v.items[i]) : i \in 1..Len(v.items)}
      [] OTHER -> {}

FrameObjs(f) ==
    CASE f.fn = "Parse" -> ObjsIn(f.obj)
      [] f.fn = "parseList" -> UNION {ObjsIn(f.list[i]) : i \in 1..Len(f.list)}
      [] OTHER -> {}

\* every document of the parse: those being built, those built, the one returned
AllObjs == ObjsIn(ret.val) \cup UNION {FrameObjs(stack[i]) : i \in 1..Len(stack)}

PairKeys(o) == {o.pairs[i].Key : i \in 1..Len(o.pairs)}

WellFormedObj(o) ==
    /\ o.keys = PairKeys(o)
    /\ \A i \in 1..Len(o.pairs), j \in 1..Len(o.pairs) :
          i # j => o.pairs[i].Key # o.pairs[j].Key

\* the append step of Parse: a key already present is refused with the
\* duplicate-key error and the document is left as it was; a new key is
\* recorded and its pair put last
C10_AppendStep ==
    (Running /\ Top.fn = "Parse" /\ Top.pc = "append" /\ ret.err = NilErr) =>
        IF Top.key \in PairKeys(Top.obj)
        THEN /\ stack' = Callers
             /\ ret'.err.Message = ErrDuplicateKey(Top.key)
             /\ ret'.val = Top.obj
        ELSE /\ Len(stack') = Len(stack)
             /\ stack'[Len(stack)].obj.pairs = Append(Top.obj.pairs, KeyValue(Top.key, ret.val))
             /\ stack'[Len(stack)].obj.keys = Top.obj.keys \cup {Top.key}

\* no step reorders or drops the pairs of a document under construction
C10_OrderKept ==
    \A i \in 1..Len(stack) :
        (stack[i].fn = "Parse" /\ i <= Len(stack') /\ stack'[i].fn = "Parse") =>
            \/ stack'[i].obj = stack[i].obj
            \/ /\ Len(stack'[i].obj.pairs) = Len(stack[i].obj.pairs) + 1
               /\ SubSeq(stack'[i].obj.pairs, 1, Len(stack[i].obj.pairs)) = stack[i].obj.pairs

\* C10: in every document (top-level or nested) at every point of a parse no
\* two pairs share a key, the seen-key set is the set of the pairs' keys and
\* the pairs are in the order their appends succeeded; an append of a key
\* already present returns the duplicate-key error and leaves the pairs and
\* the key set unchanged.
C10_DocumentInvariant ==
    /\ [](\A o \in AllObjs : WellFormedObj(o))
    /\ [][C10_AppendStep /\ C10_OrderKept]_vars

C10_Witness ==
    /\ Done /\ IsDuplicateKeyError(ret.err)
    /\ Len(ret.val.pairs) >= 1
    /\ ret.err.Message[2] \in PairKeys(ret.val)

\* an error has been detected and not yet handed to the caller of Parse
ErrorPending == ret.err # NilErr

\* C14: once a step of Parse, parseValue, handleSpace, parseIndentedValue or
\* parseList has detected an error, every caller on the stack only hands that
\* error up (it reads no token and appends no pair), and the failed parse
\* hands back no partial document: the value returned with the error holds
\* no pair.
C14_FailFast ==
    /\ (ErrorPending /\ Running) => (Top.fn \in {"Parse", "parseList"} /\ Top.pc = "append")
    /\ Failed => (ret.val = NilVal \/ ret.val = EmptyObj)

\* C15: a comment on a line of its own before or after an entry, or after the
\* value of an entry, is discarded: the parse succeeds with the document of
\* the entry alone.
C15_CommentsDiscarded ==
    \A t \in CommentTexts :
        (input \in Commented(<<"a">>, t) /\ Done) =>
            ret = [val |-> Doc(<<KeyValue(<<"a">>, ExpectedScalar(t))>>), err |-> NilErr]

\* C17: a nested block map of two entries on consecutive lines at one
\* indentation parses without error to a nested document holding both entries
\* in source order.
C17_NestedBlockEntries ==
    \A ind \in Indents \ {<<>>} :
        ( /\ input = Opener(<<"a">>) \o NL \o ind \o Entry(<<"a">>, <<"1">>) \o NL
                        \o ind \o Entry(<<"b">>, <<"2">>) \o NL
          /\ Done ) =>
            ret = [ val |-> Doc(<< KeyValue(<<"a">>,
                                     Doc(<< KeyValue(<<"a">>, ExpectedScalar(<<"1">>)),
                                            KeyValue(<<"b">>, ExpectedScalar(<<"2">>)) >>)) >>),
                    err |-> NilErr ]

\* the nested blocks still open: the frames of Parse and parseList above the
\* top-level Parse, each opened by one increment of parseIndentedValue
OpenBlocks == Cardinality({i \in 2..Len(stack) : stack[i].fn \in {"Parse", "parseList"}})

\* C18: when a nested block has finished and control is back in the caller
\* that holds its value, currentIndentation is what it was before the block
\* was opened, which is the number of blocks still open; after a successful
\* top-level Parse it is 0.
C18_IndentationBalanced ==
    /\ ( /\ Running /\ Top.fn \in {"Parse", "parseList"} /\ Top.pc = "append"
         /\ ret.err = NilErr /\ ret.val.kind \in {"Map", "List"} ) =>
            currentIndentation = OpenBlocks
    /\ Succeeded => currentIndentation = 0

\* C20: every INT_NUMBER token the Lexer hands to the parser is accepted by
\* the strconv.Atoi of parseValue, so no parse ends with its "expected a
\* number" error.
C20_IntTokensConvert ==
    /\ (currToken.Type = "INT_NUMBER") => AtoiOK(currToken.Value)
    /\ Done => ret.err.Message # <<"expected a number">>

\* what is left to read: the bytes after the cursor and the token in hand
TokenMeasure == 2 * (Len(input) - pos) + (IF currToken.Type = "EOF" THEN 0 ELSE 1)

\* a turn of the loop of Parse, handleSpace or parseList is about to start
LoopTurn ==
    /\ Running
    /\ \/ Top.fn = "Parse" /\ Top.pc = "key" /\ currToken.Type = "STRING"
       \/ Top.fn = "handleSpace" /\ currToken.Type = "SPACE"
       \/ Top.fn = "parseList" /\ Top.pc = "loop" /\ currToken.Type = "HYPHEN"

\* a NextToken call from the cursor returns EOF or moves the cursor forward
CursorAdvances ==
    LET r == LexerNextToken(input, pos)
    IN r.tok.Type # "EOF" => r.pos > pos

\* handleSpace goes on to parseValue or parseIndentedValue only after it has
\* consumed a SPACE token
RecursionConsumes ==
    (Running /\ Top.fn = "handleSpace" /\ currToken.Type # "SPACE") => Top.spaceCount >= 1

\* C19: every parse ends (with a document or an error); every NextToken call
\* of a parse that does not return EOF leaves the cursor strictly further,
\* the calls that re-lex after a rewind included; every turn of the loops of
\* Parse, handleSpace and parseList consumes a token, and handleSpace calls
\* on only after consuming one.
C19_Termination ==
    /\ <>Done
    /\ [](CursorAdvances /\ RecursionConsumes)
    /\ [][LoopTurn => TokenMeasure' < TokenMeasure]_vars

\* a finished parse whose key went through the rewind of readNull and whose
\* value went through the rewind of readBoolean
C19_Witness ==
    /\ input = ScalarDoc(<<"n">>, <<"t", "o">>, NL)
    /\ Done
    /\ ret = [val |-> Doc(<<KeyValue(<<"n">>, yamlString(<<"t", "o">>))>>), err |-> NilErr]

(***************************************************************************)
(* The Lexer on its own (SpecLex)                                          *)
(***************************************************************************)
\* C11: NextToken returns EOF only when the cursor is beyond the buffer, and
\* once it has returned EOF the next call (and so every later one) returns EOF
\* again and leaves the cursor where it was, on every input, a zero byte in
\* the buffer included.
C11_EndOfInputSticky ==
    (currToken.Type = "EOF") =>
        /\ pos >= Len(input)
        /\ ~LexerNextTokenAborts(input, pos)
        /\ LexerNextToken(input, pos).tok.Type = "EOF"
        /\ LexerNextToken(input, pos).pos = pos

TokenTypes ==
    {"INVALID", "EOF", "STRING", "INT_NUMBER", "FLOAT_NUMBER", "BOOLEAN", "NULL",
     "COLON", "HYPHEN", "LEFT_SQUARE_BRACKET", "RIGHT_SQUARE_BRACKET", "NEWLINE", "SPACE",
     "COMMENT"}

\* C12: on every input and from every cursor reached by repeated NextToken
\* calls, NextToken evaluates no index or slice out of bounds and returns a
\* token of one of the token types with the cursor inside 0..len; what cannot
\* be lexed comes back as an INVALID token.
C12_NextTokenNeverAborts ==
    /\ currToken # AbortToken
    /\ ~LexerNextTokenAborts(input, pos)
    /\ currToken.Type \in TokenTypes
    /\ pos \in 0..Len(input)
    /\ LexerNextToken(input, pos).tok.Type \in TokenTypes

\* an unterminated quote that ran to the end of the buffer: input[pos-1] was
\* read with the cursor at len, and the call returned an INVALID token
C12_Witness ==
    /\ Len(input) >= 2
    /\ input[1] = "\""
    /\ currToken.Type = "INVALID"
    /\ currToken.Value = <<"unterminated string">>
    /\ pos = Len(input)

\* C16: a STRING token of readUnquotedString (one that does not open with a
\* quote) does not end in whitespace.
C16_NoTrailingWhitespace ==
    (currToken.Type = "STRING" /\ currToken.Value # <<>> /\ currToken.Value[1] \notin {"'", "\""}) =>
        ~IsSpace(currToken.Value[Len(currToken.Value)])

(***************************************************************************)
(* The pushback slot (SpecPeek)                                            *)
(***************************************************************************)
\* the last call was peekToken and ret.val is the token it returned
Peeked == prevToken # "nil" /\ "Type" \in DOMAIN ret.val

\* the NextToken after a peek makes the peeked token current and empties the slot
C21_NextAfterPeek ==
    (Peeked /\ CallNextToken) => (currToken' = ret.val /\ prevToken' = "nil")

\* the token a call of Parser.NextToken would make current (lines 135-141)
tokenAfterNextToken == IF prevToken # "nil" THEN currToken ELSE LexerNextToken(input, pos).tok

\* when the last call was a NextToken, the one after it goes on with the next
\* token of the stream
C21_NextContinues == (ret = NoReturn) => tokenAfterNextToken = LexerNextToken(input, pos).tok

\* a second peek with no advance in between returns the same token and
\* consumes nothing
C21_PeekTwice ==
    (Peeked /\ peekToken) => (ret'.val = ret.val /\ pos' = pos)

\* C21: the pushback slot gives one token of lookahead without losing or
\* repeating a token: the NextToken after a peekToken makes the peeked token
\* current and empties the slot, the NextToken calls after it go on with the
\* following tokens of the stream, and a second peekToken with no NextToken in
\* between returns the same token again.
C21_OneTokenLookahead ==
    /\ []C21_NextContinues
    /\ [][C21_NextAfterPeek /\ C21_PeekTwice]_vars

====
